---- MODULE Spec2Model ----
(***************************************************************************)
(* react-loopback: the DataLoader wrapper made by createDataLoader         *)
(* (src/src/createDataLoader.jsx, the current definition at lines 291-542)  *)
(* and the Config store (src/unnamed/part_000).                             *)
(*                                                                          *)
(* JavaScript strings that the code slices, concatenates or uses as object  *)
(* keys are sequences of one-character strings.  JavaScript values that can *)
(* meet in one slot (a data entry, a status entry, a filter) are tagged     *)
(* records [t |-> tag, v |-> payload].  Status texts and error messages,    *)
(* which the code only concatenates and compares, are TLA+ strings.         *)
(***************************************************************************)
EXTENDS Integers, Sequences, FiniteSets, TLC

VARIABLES
    options,     \* options.queries given to createDataLoader (the author's objects)
    config,      \* Config._config, the process-wide store
    mounted,     \* "no" before componentWillMount, "yes" once mounted, "failed" when it
                 \* threw, "gone" after the unmount
    _queries,    \* this._queries: name -> normalized query (cfg)
    _data,       \* this._data: key -> value, spread into the props by render()
    timer,       \* per query, the pending call of its debounced load
    requests,    \* the promise chains started by _load and not yet finished
    nextId,      \* number of promise chains started so far
    props,       \* the props snapshot of the last render()
    thrown,      \* what the last call of load() raised to its caller
    nLoads,      \* number of load() calls made by the host application
    lastCall,    \* arguments of the last invocation of a custom transform
    window,      \* per query, the load() calls made since its debounce timer last fired
    cycle,       \* per query, the load cycle started last and the cycles that
                 \* wrote its data and its status last (history)
    rendered,    \* whether the last step rendered the wrapper (history)
    autoLoaded   \* the names load() was called with by componentWillMount, in call
                 \* order (history)

vars == <<options, config, mounted, _queries, _data, timer, requests, nextId,
          props, thrown, nLoads, lastCall, window, cycle, rendered, autoLoaded>>

-----------------------------------------------------------------------------
(* Bounds of the model *)

\* load() calls made by the host application in one run
MaxLoads == 2

-----------------------------------------------------------------------------
(* JavaScript values *)

Undefined == [t |-> "undefined", v |-> 0]
Bool(b)   == [t |-> "boolean", v |-> b]
String(s) == [t |-> "string", v |-> s]
Array(s)  == [t |-> "array", v |-> s]
Object(f) == [t |-> "object", v |-> f]
Function(f) == [t |-> "function", v |-> f]
Number(n) == [t |-> "number", v |-> n]

\* {} : the object with no keys
EmptyObject == [k \in {} |-> 0]

\* obj[key], undefined when the key is absent
Get(obj, key) == IF key \in DOMAIN obj THEN obj[key] ELSE Undefined

\* obj[key] = value
Put(obj, key, value) ==
    [k \in DOMAIN obj \cup {key} |-> IF k = key THEN value ELSE obj[k]]

\* _.assign(object, source) on plain objects
assign(object, source) ==
    [k \in DOMAIN object \cup DOMAIN source |->
        IF k \in DOMAIN source THEN source[k] ELSE object[k]]

-----------------------------------------------------------------------------
(* Strings *)

Slash == "/"

\* str.slice(-1): the last character, '' for the empty string
sliceLast(str) == IF Len(str) = 0 THEN <<>> ELSE <<str[Len(str)]>>

\* str.slice(0, 1): the first character, '' for the empty string
sliceFirst(str) == IF Len(str) = 0 THEN <<>> ELSE <<str[1]>>

\* str.slice(1)
sliceFrom1(str) == IF Len(str) = 0 THEN <<>> ELSE SubSeq(str, 2, Len(str))

\* str.slice(0, -1)
sliceToLast(str) == IF Len(str) = 0 THEN <<>> ELSE SubSeq(str, 1, Len(str) - 1)

\* the characters \w of a regular expression
WordChars ==
    {"a","b","c","d","e","f","g","h","i","j","k","l","m","n","o","p","q","r",
     "s","t","u","v","w","x","y","z",
     "A","B","C","D","E","F","G","H","I","J","K","L","M","N","O","P","Q","R",
     "S","T","U","V","W","X","Y","Z",
     "0","1","2","3","4","5","6","7","8","9","_"}

\* str.replace(/\W/g, '-'): every non-word character becomes a '-' of its own
replaceNonWordEach(str) ==
    [i \in 1..Len(str) |-> IF str[i] \in WordChars THEN str[i] ELSE "-"]

\* str.replace(/\W+/g, '-'): every maximal run of non-word characters becomes one '-'
RECURSIVE replaceNonWord(_)
replaceNonWord(str) ==
    IF Len(str) = 0 THEN <<>>
    ELSE IF str[1] \in WordChars THEN <<str[1]>> \o replaceNonWord(Tail(str))
    ELSE IF Len(str) > 1 /\ str[2] \notin WordChars THEN replaceNonWord(Tail(str))
    ELSE <<"-">> \o replaceNonWord(Tail(str))

\* the decimal digits of a natural number
RECURSIVE digits(_)
digits(n) ==
    LET d == <<"0","1","2","3","4","5","6","7","8","9">> IN
    IF n < 10 THEN <<d[n + 1]>> ELSE digits(n \div 10) \o <<d[(n % 10) + 1]>>

\* the characters of the object keys the model uses
KeyChars ==
    [id |-> <<"i","d">>, limit |-> <<"l","i","m","i","t">>,
     skip |-> <<"s","k","i","p">>]

\* the order in which the filters of the model insert their keys
KeyOrder == <<"id", "limit", "skip">>

\* JSON.stringify of an object whose values are natural numbers
RECURSIVE stringifyFrom(_, _, _)
stringifyFrom(obj, i, first) ==
    IF i > Len(KeyOrder) THEN <<>>
    ELSE IF KeyOrder[i] \notin DOMAIN obj THEN stringifyFrom(obj, i + 1, first)
    ELSE (IF first THEN <<>> ELSE <<",">>)
         \o <<"\"">> \o KeyChars[KeyOrder[i]] \o <<"\"", ":">> \o digits(obj[KeyOrder[i]])
         \o stringifyFrom(obj, i + 1, FALSE)

stringify(value) == <<"{">> \o stringifyFrom(value.v, 1, TRUE) \o <<"}">>

\* the characters encodeURIComponent leaves as they are
Unreserved == (WordChars \cup {"-", ".", "!", "~", "*", "'", "(", ")"})

PercentCode ==
    [c \in {"{", "}", "\"", ":", ",", "/", "?", "=", "&", " "} |->
        CASE c = "{" -> <<"%","7","B">>
          [] c = "}" -> <<"%","7","D">>
          [] c = "\"" -> <<"%","2","2">>
          [] c = ":" -> <<"%","3","A">>
          [] c = "," -> <<"%","2","C">>
          [] c = "/" -> <<"%","2","F">>
          [] c = "?" -> <<"%","3","F">>
          [] c = "=" -> <<"%","3","D">>
          [] c = "&" -> <<"%","2","6">>
          [] c = " " -> <<"%","2","0">>]

RECURSIVE encodeURIComponent(_)
encodeURIComponent(str) ==
    IF Len(str) = 0 THEN <<>>
    ELSE (IF str[1] \in Unreserved THEN <<str[1]>> ELSE PercentCode[str[1]])
         \o encodeURIComponent(Tail(str))

\* the truth value JavaScript gives a value in a condition
Truthy(value) ==
    CASE value.t = "undefined" -> FALSE
      [] value.t = "boolean" -> value.v
      [] value.t = "string" -> Len(value.v) > 0
      [] OTHER -> TRUE

-----------------------------------------------------------------------------
(* Config (src/unnamed/part_000) *)

\* Config.get(key)
ConfigGet(key) == Get(config, key)

\* Config.set(key, value) with a string key
ConfigSetKey(cfg, key, value) == Put(cfg, key, value)

\* Config.set(map) replacing the whole store by the map
ConfigSetMapReplacing(cfg, map) == map

\* Config.set(map): typeof key === 'object'
ConfigSetMap(cfg, map) == assign(cfg, map)

-----------------------------------------------------------------------------
(* URL builder: statics of DataLoader *)

\* config.get(key) || ''
GetOrEmpty(key) == IF Truthy(ConfigGet(key)) THEN ConfigGet(key).v ELSE <<>>

\* _getBaseUrl adding a slash in every case
_getBaseUrlAlwaysAdding == GetOrEmpty("baseUrl") \o <<Slash>>

_getBaseUrl ==
    LET baseUrl == GetOrEmpty("baseUrl") IN
    IF sliceLast(baseUrl) # <<Slash>> THEN baseUrl \o <<Slash>> ELSE baseUrl

\* _buildUrl introducing the access_token parameter by '?' in every case
_buildUrlQuestionMark(endpoint, filter) ==
    LET baseUrl == _getBaseUrl
        url1 == baseUrl \o endpoint
        url2 == IF Truthy(filter)
                THEN url1 \o <<"?","f","i","l","t","e","r","=">>
                          \o encodeURIComponent(stringify(filter))
                ELSE url1
        token == GetOrEmpty("access_token")
    IN  IF Len(token) > 0
        THEN url2 \o <<"?">>
                  \o <<"a","c","c","e","s","s","_","t","o","k","e","n","=">> \o token
        ELSE url2

_buildUrl(endpoint, filter) ==
    LET baseUrl == _getBaseUrl
        url1 == baseUrl \o endpoint
        url2 == IF Truthy(filter)
                THEN url1 \o <<"?","f","i","l","t","e","r","=">>
                          \o encodeURIComponent(stringify(filter))
                ELSE url1
        token == GetOrEmpty("access_token")
    IN  IF Len(token) > 0
        THEN url2 \o (IF Truthy(filter) THEN <<"&">> ELSE <<"?">>)
                  \o <<"a","c","c","e","s","s","_","t","o","k","e","n","=">> \o token
        ELSE url2

-----------------------------------------------------------------------------
(* Transform functions *)

\* what a call returns: a value, or an exception with its message
Return(value) == [threw |-> FALSE, value |-> value, message |-> ""]
Throw(message) == [threw |-> TRUE, value |-> Undefined, message |-> message]

\* options[key] with the default of a destructuring parameter
OptionOr(opts, key, default) == IF key \in DOMAIN opts THEN opts[key] ELSE default

\* _transform_array with a slip: with append the new rows come first
_transform_arrayPrepending(json, data, filter, params, opts) ==
    LET append == OptionOr(opts, "append", FALSE) IN
    IF append
    THEN (IF data.t = "array" THEN Return(Array(json.v \o data.v))
          ELSE Throw("data.concat is not a function"))
    ELSE Return(json)

\* _transform_array(json, data, filter, params, {append = false})
_transform_array(json, data, filter, params, opts) ==
    LET append == OptionOr(opts, "append", FALSE) IN
    IF append
    THEN (IF data.t = "array" THEN Return(Array(data.v \o json.v))
          ELSE Throw("data.concat is not a function"))
    ELSE Return(json)

\* _.indexBy(json, id): later rows replace earlier rows of the same key
indexBy(rows, id) ==
    LET keys == {rows[i][id] : i \in 1..Len(rows)} IN
    [k \in keys |->
        rows[CHOOSE i \in 1..Len(rows) :
                /\ rows[i][id] = k
                /\ \A j \in (i + 1)..Len(rows) : rows[j][id] # k]]

\* _transform_object with a slip: on a key that both have, the old row wins
_transform_objectKeepingOld(json, data, filter, params, opts) ==
    LET id == OptionOr(opts, "id", "id")
        newData == indexBy(json.v, id)
        reset == OptionOr(opts, "reset", FALSE)
        old == IF data.t = "object" THEN data.v ELSE EmptyObject
    IN  IF reset THEN Return(Object(newData))
        ELSE Return(Object(assign(assign(EmptyObject, newData), old)))

\* _transform_object(json, data, filter, params, {id = 'id', reset = false})
_transform_object(json, data, filter, params, opts) ==
    LET id == OptionOr(opts, "id", "id")
        newData == indexBy(json.v, id)
        reset == OptionOr(opts, "reset", FALSE)
        old == IF data.t = "object" THEN data.v ELSE EmptyObject
    IN  IF reset THEN Return(Object(newData))
        ELSE Return(Object(assign(assign(EmptyObject, old), newData)))

\* the custom transform of the test 'should accept a custom transform function':
\* it inspects its arguments (ThenTransform keeps them in lastCall) and returns
\* nothing
spyTransform(json, data, filter, params, opts) == Return(Undefined)

\* a custom transform that checks its arguments, as the one of that test does with
\* expect(): it throws when the options are not the ones it expects (none), and
\* returns the payload otherwise
checkingTransform(json, data, filter, params, opts) ==
    IF opts = EmptyObject THEN Return(json) ELSE Throw("Some error message")

\* cfg.transform(json, data, filter, params, options)
CallTransform(transform, json, data, filter, params, opts) ==
    CASE transform.v = "_transform_array" ->
            _transform_array(json, data, filter, params, opts)
      [] transform.v = "_transform_object" ->
            _transform_object(json, data, filter, params, opts)
      [] transform.v = "spyTransform" ->
            spyTransform(json, data, filter, params, opts)
      [] transform.v = "checkingTransform" ->
            checkingTransform(json, data, filter, params, opts)

\* the arguments a transform was called with
CallRecord(name, json, data, filter, params, opts) ==
    [name |-> name, json |-> json, data |-> data, filter |-> filter,
     params |-> params, options |-> opts]

NoCall == CallRecord(<<>>, Undefined, Undefined, Undefined, EmptyObject, EmptyObject)

-----------------------------------------------------------------------------
(* Filter functions *)

\* the filter function of the documentation:
\*   function (params) { if (!params.page) return false;
\*                       return { limit: 30, skip: 30 * params.page - 30 }; }
pageFilter(params) ==
    IF "page" \notin DOMAIN params \/ params["page"] = 0
    THEN Bool(FALSE)
    ELSE Object([limit |-> 30, skip |-> 30 * params["page"] - 30])

\* cfg.filter(cfg.params)
CallFilter(filter, params) ==
    CASE filter.v = "pageFilter" -> pageFilter(params)

-----------------------------------------------------------------------------
(* Query normalizer *)

StatusSuffix == <<"_","s","t","a","t","u","s">>

TransformPrefix == <<"_","t","r","a","n","s","f","o","r","m","_">>

\* the static members with a slip: a name that selects none selects the array
\* transform
StaticsDefaultingToArray(key) ==
    IF key = TransformPrefix \o <<"o","b","j","e","c","t">>
    THEN Function("_transform_object")
    ELSE Function("_transform_array")

\* DataLoader[key] for the static members a transform name can select
Statics(key) ==
    IF key = TransformPrefix \o <<"a","r","r","a","y">>
    THEN Function("_transform_array")
    ELSE IF key = TransformPrefix \o <<"o","b","j","e","c","t">>
    THEN Function("_transform_object")
    ELSE Undefined

\* the callback of queries.map in _normalizeQueries, for the query at index i.
\* The params of a normalized query is a reference: alias = i when it is the
\* params object of the declaration i, alias = 0 when it is an object of the
\* instance's own (own holds its content).
_normalizeQuery(q, i) ==
    LET params == IF q.params.t = "undefined"
                  THEN [alias |-> 0, own |-> EmptyObject]
                  ELSE [alias |-> i, own |-> EmptyObject]
        autoLoad == IF q.autoLoad.t = "undefined" THEN Bool(TRUE) ELSE q.autoLoad
        transform0 == IF q.transform.t = "undefined"
                      THEN String(<<"a","r","r","a","y">>)
                      ELSE q.transform
        endpoint1 == IF sliceFirst(q.endpoint.v) = <<Slash>>
                     THEN sliceFrom1(q.endpoint.v) ELSE q.endpoint.v
        endpoint2 == IF sliceLast(endpoint1) = <<Slash>>
                     THEN sliceToLast(endpoint1) ELSE endpoint1
        transform1 == IF transform0.t = "string"
                      THEN Statics(TransformPrefix \o transform0.v)
                      ELSE transform0
    IN  IF q.endpoint.t = "undefined"
        THEN Throw("Cannot read property 'slice' of undefined")
        ELSE IF transform1.t # "function"
        THEN Throw("Unknown type of transform option:" \o transform1.t)
        ELSE [threw |-> FALSE, message |-> "",
              value |-> [name |-> IF Truthy(q.name) THEN q.name.v
                                  ELSE replaceNonWord(endpoint2),
                         filter |-> q.filter,
                         endpoint |-> endpoint2,
                         params |-> params,
                         autoLoad |-> autoLoad,
                         transform |-> transform1]]

\* _normalizeQueries(queries): the normalized queries, or the first exception
_normalizeQueries(queries) ==
    LET each == [i \in 1..Len(queries) |-> _normalizeQuery(queries[i], i)] IN
    IF \E i \in 1..Len(queries) : each[i].threw
    THEN each[CHOOSE i \in 1..Len(queries) :
                 each[i].threw /\ \A j \in 1..(i - 1) : ~each[j].threw]
    ELSE [threw |-> FALSE, message |-> "",
          value |-> [i \in 1..Len(queries) |-> each[i].value]]

\* _.indexBy(list, 'name'): a later query replaces an earlier one of the same name
indexByName(list) ==
    [n \in {list[i].name : i \in 1..Len(list)} |->
        list[CHOOSE i \in 1..Len(list) :
                /\ list[i].name = n
                /\ \A j \in (i + 1)..Len(list) : list[j].name # n]]

\* the digit a character stands for
digitOf(char) == CHOOSE d \in 0..9 : digits(d) = <<char>>

\* of two strings of decimal digits without leading zeros, the first reads as
\* the smaller number
RECURSIVE below(_, _)
below(a, b) ==
    IF Len(a) # Len(b) THEN Len(a) < Len(b)
    ELSE IF Len(a) = 0 THEN FALSE
    ELSE IF a[1] # b[1] THEN digitOf(a[1]) < digitOf(b[1])
    ELSE below(Tail(a), Tail(b))

\* a property key that is an array index: the canonical decimal form of an
\* integer below 2^32 - 1
isIndex(key) ==
    /\ Len(key) > 0
    /\ \A i \in 1..Len(key) : key[i] \in {"0","1","2","3","4","5","6","7","8","9"}
    /\ Len(key) > 1 => key[1] # "0"
    /\ below(key, <<"4","2","9","4","9","6","7","2","9","5">>)

\* the names in the order of their first insertion by _.indexBy
RECURSIVE insertionOrder(_, _)
insertionOrder(list, i) ==
    IF i > Len(list) THEN <<>>
    ELSE IF \E j \in 1..(i - 1) : list[j].name = list[i].name
    THEN insertionOrder(list, i + 1)
    ELSE <<list[i].name>> \o insertionOrder(list, i + 1)

\* the keys of a set of array indices in ascending numeric order
RECURSIVE ascending(_)
ascending(keys) ==
    IF keys = {} THEN <<>>
    ELSE LET least == CHOOSE k \in keys : \A k2 \in keys : ~below(k2, k)
         IN  <<least>> \o ascending(keys \ {least})

\* keys in declaration order whatever they are
namesAsDeclared(list, i) == insertionOrder(list, i)

\* the names in the order _.map(this._queries, ...) visits them, which is the
\* order of the own keys of the object _.indexBy built: the array indices in
\* ascending order, then the other names in the order of their first insertion
namesInOrder(list, i) ==
    LET inserted == insertionOrder(list, i)
        isName(key) == ~isIndex(key)
    IN  ascending({inserted[j] : j \in {j \in 1..Len(inserted) : isIndex(inserted[j])}})
            \o SelectSeq(inserted, isName)

\* cfg.params, read through the reference
ParamsOf(opts, cfg) ==
    IF cfg.params.alias # 0 THEN opts[cfg.params.alias].params.v ELSE cfg.params.own

-----------------------------------------------------------------------------
(* The query declarations the model runs with *)

Query(name, endpoint, filter, params, autoLoad, transform) ==
    [name |-> name, endpoint |-> endpoint, filter |-> filter, params |-> params,
     autoLoad |-> autoLoad, transform |-> transform]

\* { endpoint: '/u/' }: everything else defaulted
QueryU == Query(Undefined, String(<<"/","u","/">>), Undefined, Undefined,
                Undefined, Undefined)

\* { name: 'u_status', endpoint: 's', filter: pageFilter, autoLoad: false,
\*   transform: spyTransform }
QueryUStatus == Query(String(<<"u">> \o StatusSuffix), String(<<"s">>),
                      Function("pageFilter"), Undefined, Bool(FALSE),
                      Function("spyTransform"))

\* { name: 'u', endpoint: 'u', filter: {limit: 10} }
QueryULimit == Query(String(<<"u">>), String(<<"u">>), Object([limit |-> 10]),
                     Undefined, Undefined, Undefined)

\* { endpoint: 'v/', filter: pageFilter, params: {page: 1}, autoLoad: false,
\*   transform: 'array' }
QueryV == Query(Undefined, String(<<"v","/">>), Function("pageFilter"),
                Object([page |-> 1]), Bool(FALSE), String(<<"a","r","r","a","y">>))

\* { endpoint: 'w', filter: false }
QueryW == Query(Undefined, String(<<"w">>), Bool(FALSE), Undefined, Undefined,
                Undefined)

\* { endpoint: 'x', transform: 'list' }: no such built-in transform
QueryX == Query(Undefined, String(<<"x">>), Undefined, Undefined, Undefined,
                String(<<"l","i","s","t">>))

\* { endpoint: 'e', filter: {} }
QueryE == Query(Undefined, String(<<"e">>), Object(EmptyObject), Undefined,
                Undefined, Undefined)

\* { endpoint: 'a', autoLoad: false }
QueryA == Query(Undefined, String(<<"a">>), Undefined, Undefined, Bool(FALSE),
                Undefined)

\* { endpoint: 's', transform: checkingTransform }
QueryS == Query(Undefined, String(<<"s">>), Undefined, Undefined, Undefined,
                Function("checkingTransform"))

\* { endpoint: 't', transform: transform }
QueryT(transform) ==
    Query(Undefined, String(<<"t">>), Undefined, Undefined, Undefined, transform)

\* what a declaration may give as transform: nothing, the names of the built-in
\* transforms, a function, a name of no transform, a value that is no function
TransformValues ==
    { Undefined,
      String(<<"a","r","r","a","y">>),
      String(<<"o","b","j","e","c","t">>),
      Function("spyTransform"),
      String(<<"l","i","s","t">>),
      Number(5) }

ResolveBindings == { <<QueryT(transform)>> : transform \in TransformValues }

Bindings ==
    { <<QueryU, QueryUStatus>>, <<QueryULimit, QueryV>>, <<QueryW>>, <<QueryX>> }

\* a name that no binding declares
UnknownName == <<"n","o","n","e">>

-----------------------------------------------------------------------------
(* What the environment supplies *)

\* the (params, options) the host application passes to load()
LoadArgs ==
    { <<[page |-> 2], EmptyObject>>,
      <<[id |-> 7], [append |-> TRUE]>>,
      <<EmptyObject, [resetParams |-> TRUE]>> }

\* the JSON body the server answers a request with: one row, which tells the
\* answers of different requests apart
Payload(r) == Array(<<[id |-> r.id]>>)

\* config.set(key, value) calls of the host: a base URL that is empty, one without
\* and one with a slash at its end; an access token, and an empty one
ConfigSets ==
    { <<"baseUrl", String(<<>>)>>,
      <<"baseUrl", String(<<"h">>)>>,
      <<"baseUrl", String(<<"h","/">>)>>,
      <<"access_token", String(<<"k">>)>>,
      <<"access_token", String(<<>>)>> }

\* config.set(map) calls of the host
ConfigMaps ==
    { [baseUrl |-> String(<<"h","/">>), access_token |-> String(<<"k">>)],
      [baseUrl |-> String(<<"h">>)] }

\* payloads of rows with two fields that can serve as id: none, one row, two
\* rows of one key; the id 1 comes in two payloads with different content
RowPayloads ==
    { Array(<<>>),
      Array(<<[id |-> 1, key |-> 10, v |-> 1]>>),
      Array(<<[id |-> 1, key |-> 20, v |-> 2], [id |-> 2, key |-> 20, v |-> 3]>>) }

\* load(name, {}, options) with the options the built-in transforms read
TransformLoadArgs ==
    { <<EmptyObject, EmptyObject>>,
      <<EmptyObject, [append |-> TRUE]>>,
      <<EmptyObject, [reset |-> TRUE]>>,
      <<EmptyObject, [id |-> "key"]>> }

\* the messages a failure carries: response.statusText of a response that is
\* not ok, or the message of the error fetch() rejects with
Messages == {"Some error message"}

-----------------------------------------------------------------------------
(* The debounced load of a query: debounce(fn, 200, false) of ./util *)

NoTimer == [pending |-> FALSE, args |-> EmptyObject]

\* a call of the debounced function: (re)starts the timer and keeps the
\* arguments of this call for the execution
debounceCall(t, args) == [pending |-> TRUE, args |-> args]

-----------------------------------------------------------------------------
(* The wrapper component *)

\* render(): the props the inner component receives, {...this.props, ...this._data}
\* (the wrapper itself is given no props)
render(data) == data

\* this.forceUpdate(): renders at once while mounted, does nothing afterwards
forceUpdate(data) == IF mounted = "yes" THEN render(data) ELSE props

\* the cycles of a query (history): none started, none has written
NoCycle == [started |-> 0, dataBy |-> 0, statusBy |-> 0]

\* the debounce window of a query (history): the stored params when its first
\* call was made and the calls made since
NoWindow == [base |-> EmptyObject, calls |-> <<>>]

\* load() with a slip: the params of the call replace the stored params instead
\* of being merged into them
loadReplacingParams(S, name, params, opts) ==
    LET cfg == S.q[name]
        w0 == IF S.t[name].pending THEN S.w[name]
              ELSE [base |-> ParamsOf(S.o, cfg), calls |-> <<>>]
    IN  [o |-> S.o,
         q |-> [S.q EXCEPT ![name].params = [alias |-> 0, own |-> params]],
         t |-> [S.t EXCEPT ![name] = debounceCall(@, opts)],
         w |-> [S.w EXCEPT ![name] =
                    [w0 EXCEPT !.calls = Append(@, <<params, opts>>)]]]

\* load() with a slip: options.resetParams is not looked at
loadKeepingOnReset(S, name, params, opts) ==
    LET cfg == S.q[name]
        i == cfg.params.alias
        o2 == IF i # 0
              THEN [S.o EXCEPT ![i].params = Object(assign(@.v, params))]
              ELSE S.o
        cfg2 == IF i = 0
                THEN [cfg EXCEPT !.params.own = assign(@, params)]
                ELSE cfg
        w0 == IF S.t[name].pending THEN S.w[name]
              ELSE [base |-> ParamsOf(S.o, cfg), calls |-> <<>>]
    IN  [o |-> o2,
         q |-> [S.q EXCEPT ![name] = cfg2],
         t |-> [S.t EXCEPT ![name] = debounceCall(@, opts)],
         w |-> [S.w EXCEPT ![name] =
                    [w0 EXCEPT !.calls = Append(@, <<params, opts>>)]]]

\* load() with a slip: one debounced function serves all the queries, so a call
\* drops the pending call of every other query
loadSharedDebounce(S, name, params, opts) ==
    LET cfg == S.q[name]
        cfg1 == IF OptionOr(opts, "resetParams", FALSE)
                THEN [cfg EXCEPT !.params = [alias |-> 0, own |-> EmptyObject]]
                ELSE cfg
        i == cfg1.params.alias
        o2 == IF i # 0
              THEN [S.o EXCEPT ![i].params = Object(assign(@.v, params))]
              ELSE S.o
        cfg2 == IF i = 0
                THEN [cfg1 EXCEPT !.params.own = assign(@, params)]
                ELSE cfg1
        w0 == IF S.t[name].pending THEN S.w[name]
              ELSE [base |-> ParamsOf(S.o, cfg), calls |-> <<>>]
    IN  [o |-> o2,
         q |-> [S.q EXCEPT ![name] = cfg2],
         t |-> [n \in DOMAIN S.t |->
                   IF n = name THEN debounceCall(S.t[n], opts) ELSE NoTimer],
         w |-> [S.w EXCEPT ![name] =
                    [w0 EXCEPT !.calls = Append(@, <<params, opts>>)]]]

\* load(name, params = {}, options = {}) on the state
\* S = [o |-> options.queries, q |-> this._queries, t |-> timers, w |-> windows]
load(S, name, params, opts) ==
    LET cfg == S.q[name]
        cfg1 == IF OptionOr(opts, "resetParams", FALSE)
                THEN [cfg EXCEPT !.params = [alias |-> 0, own |-> EmptyObject]]
                ELSE cfg
        i == cfg1.params.alias
        o2 == IF i # 0
              THEN [S.o EXCEPT ![i].params = Object(assign(@.v, params))]
              ELSE S.o
        cfg2 == IF i = 0
                THEN [cfg1 EXCEPT !.params.own = assign(@, params)]
                ELSE cfg1
        w0 == IF S.t[name].pending THEN S.w[name]
              ELSE [base |-> ParamsOf(S.o, cfg), calls |-> <<>>]
    IN  [o |-> o2,
         q |-> [S.q EXCEPT ![name] = cfg2],
         t |-> [S.t EXCEPT ![name] = debounceCall(@, opts)],
         w |-> [S.w EXCEPT ![name] =
                    [w0 EXCEPT !.calls = Append(@, <<params, opts>>)]]]

\* _.map(this._queries, ({name, autoLoad}) => autoLoad && this.load(name))
RECURSIVE autoLoadAll(_, _, _)
autoLoadAll(S, names, i) ==
    IF i > Len(names) THEN S
    ELSE IF Truthy(S.q[names[i]].autoLoad)
    THEN autoLoadAll(load(S, names[i], EmptyObject, EmptyObject), names, i + 1)
    ELSE autoLoadAll(S, names, i + 1)

\* componentWillMount(), then the first render()
\* the names this.load(name) is called with by that _.map, in call order
RECURSIVE autoLoadCalls(_, _, _)
autoLoadCalls(q, names, i) ==
    IF i > Len(names) THEN <<>>
    ELSE IF Truthy(q[names[i]].autoLoad)
    THEN <<names[i]>> \o autoLoadCalls(q, names, i + 1)
    ELSE autoLoadCalls(q, names, i + 1)

componentWillMount ==
    LET norm == _normalizeQueries(options)
        q0 == indexByName(norm.value)
        S0 == [o |-> options, q |-> q0,
               t |-> [n \in DOMAIN q0 |-> NoTimer],
               w |-> [n \in DOMAIN q0 |-> NoWindow]]
        names == namesInOrder(norm.value, 1)
        S1 == autoLoadAll(S0, names, 1)
    IN  /\ mounted = "no"
        /\ ~norm.threw
        /\ mounted' = "yes"
        /\ _data' = [n \in DOMAIN q0 |-> Array(<<>>)]
        /\ options' = S1.o
        /\ _queries' = S1.q
        /\ timer' = S1.t
        /\ window' = S1.w
        /\ props' = render(_data')
        /\ cycle' = [n \in DOMAIN q0 |-> NoCycle]
        /\ rendered' = TRUE
        /\ autoLoaded' = autoLoadCalls(q0, names, 1)
        /\ UNCHANGED <<config, requests, nextId, thrown, nLoads, lastCall>>

\* componentWillMount() when _normalizeQueries throws: the mount fails
MountThrows ==
    LET norm == _normalizeQueries(options) IN
    /\ mounted = "no"
    /\ norm.threw
    /\ mounted' = "failed"
    /\ thrown' = norm.message
    /\ rendered' = FALSE
    /\ UNCHANGED <<options, config, autoLoaded, _queries, _data, timer, requests, nextId,
                   props, nLoads, lastCall, window, cycle>>

\* load() called by the host with a slip: a name that is not declared is ignored
CallLoadIgnoringUnknown(name, params, opts) ==
    /\ mounted = "yes"
    /\ nLoads < MaxLoads
    /\ nLoads' = nLoads + 1
    /\ rendered' = FALSE
    /\ IF name \in DOMAIN _queries
       THEN LET S == load([o |-> options, q |-> _queries, t |-> timer, w |-> window],
                          name, params, opts)
            IN  /\ options' = S.o
                /\ _queries' = S.q
                /\ timer' = S.t
                /\ window' = S.w
                /\ thrown' = ""
       ELSE /\ thrown' = ""
            /\ UNCHANGED <<options, _queries, timer, window>>
    /\ UNCHANGED <<config, autoLoaded, mounted, _data, requests, nextId, props, lastCall,
                   cycle>>

\* the host application calls load(name, params, options) on the mounted wrapper
CallLoad(name, params, opts) ==
    /\ mounted = "yes"
    /\ nLoads < MaxLoads
    /\ nLoads' = nLoads + 1
    /\ rendered' = FALSE
    /\ IF name \in DOMAIN _queries
       THEN LET S == load([o |-> options, q |-> _queries, t |-> timer, w |-> window],
                          name, params, opts)
            IN  /\ options' = S.o
                /\ _queries' = S.q
                /\ timer' = S.t
                /\ window' = S.w
                /\ thrown' = ""
       ELSE \* cfg is undefined: reading or writing cfg.params raises a TypeError
            /\ thrown' = "TypeError"
            /\ UNCHANGED <<options, _queries, timer, window>>
    /\ UNCHANGED <<config, autoLoaded, mounted, _data, requests, nextId, props, lastCall,
                   cycle>>

\* React unmounts the wrapper. The class declares no componentWillUnmount: no
\* code of the wrapper runs, its timers and promise chains stay as they are
Unmount ==
    /\ mounted = "yes"
    /\ mounted' = "gone"
    /\ rendered' = FALSE
    /\ UNCHANGED <<options, config, autoLoaded, _queries, _data, timer, requests, nextId,
                   props, thrown, nLoads, lastCall, window, cycle>>

\* the host application calls config.set(key, value) while the wrapper is mounted
SetConfig(key, value) ==
    /\ mounted = "yes"
    /\ config' = ConfigSetKey(config, key, value)
    /\ rendered' = FALSE
    /\ UNCHANGED <<options, autoLoaded, mounted, _queries, _data, timer, requests, nextId,
                   props, thrown, nLoads, lastCall, window, cycle>>

\* the host application calls config.set(map) while the wrapper is mounted
SetConfigMap(map) ==
    /\ mounted = "yes"
    /\ config' = ConfigSetMap(config, map)
    /\ rendered' = FALSE
    /\ UNCHANGED <<options, autoLoaded, mounted, _queries, _data, timer, requests, nextId,
                   props, thrown, nLoads, lastCall, window, cycle>>

\* a promise chain started by _load. pc names the callback that runs next:
\*   "fetch" the transport has not answered; "then2" the transform callback;
\*   "then3" the status callback (failed: the rejection handler); "then4" the
\*   forceUpdate callback.
\* History kept with it: calls, the number of load() calls its debounce window
\* collapsed; before, the data its transform replaced; live, whether the wrapper
\* was mounted when fetch was called; late, whether it was unmounted when the
\* fetch was answered.
Request(id, name, url, filter, opts, calls) ==
    [id |-> id, name |-> name, url |-> url, filter |-> filter, options |-> opts,
     pc |-> "fetch", json |-> Undefined, failed |-> FALSE, message |-> "",
     calls |-> calls, before |-> Undefined, live |-> (mounted = "yes"),
     late |-> FALSE]

\* no promise callback is waiting to run: timers and host events are tasks,
\* and a task starts only when the callbacks that are due have run
NoCallbackDue == \A r \in requests : r.pc = "fetch"

\* the filter with a slip: a filter function is called without the params
EvalFilterWithoutParams(cfg) ==
    IF cfg.filter.t = "function"
    THEN CallFilter(cfg.filter, EmptyObject)
    ELSE cfg.filter

\* the filter _load evaluates for a query
EvalFilter(cfg) ==
    IF cfg.filter.t = "function"
    THEN CallFilter(cfg.filter, ParamsOf(options, cfg))
    ELSE cfg.filter

\* filter === false
IsFalse(value) == value.t = "boolean" /\ value.v = FALSE

\* _load with a slip: a filter that is false does not end the call
_loadWithoutAbort(name, opts) ==
    LET cfg == _queries[name]
        filter == EvalFilter(cfg)
        status == cfg.name \o StatusSuffix
    IN  /\ _data' = Put(_data, status, String("loading"))
        /\ props' = forceUpdate(_data')
        /\ rendered' = (mounted = "yes")
        /\ requests' = requests \cup
               {Request(nextId + 1, cfg.name, _buildUrl(cfg.endpoint, filter),
                        filter, opts, Len(window[name].calls))}
        /\ nextId' = nextId + 1
        /\ cycle' = [cycle EXCEPT ![name].started = nextId + 1]

\* _load with a slip: a query whose status is an error is not loaded again
_loadUnlessError(name, opts) ==
    LET cfg == _queries[name]
        filter == EvalFilter(cfg)
        status == cfg.name \o StatusSuffix
        old == Get(_data, status)
    IN  IF IsFalse(filter) \/ (old.t = "string" /\ old.v \notin {"loading", "ok"})
        THEN /\ rendered' = FALSE
             /\ UNCHANGED <<_data, props, requests, nextId, cycle>>
        ELSE /\ _data' = Put(_data, status, String("loading"))
             /\ props' = forceUpdate(_data')
             /\ rendered' = (mounted = "yes")
             /\ requests' = requests \cup
                    {Request(nextId + 1, cfg.name, _buildUrl(cfg.endpoint, filter),
                             filter, opts, Len(window[name].calls))}
             /\ nextId' = nextId + 1
             /\ cycle' = [cycle EXCEPT ![name].started = nextId + 1]

\* _load(name, options), up to and including the call of fetch(url)
_load(name, opts) ==
    LET cfg == _queries[name]
        filter == EvalFilter(cfg)
        status == cfg.name \o StatusSuffix
    IN  IF IsFalse(filter)
        THEN /\ rendered' = FALSE
             /\ UNCHANGED <<_data, props, requests, nextId, cycle>>
        ELSE /\ _data' = Put(_data, status, String("loading"))
             /\ props' = forceUpdate(_data')
             /\ rendered' = (mounted = "yes")
             /\ requests' = requests \cup
                    {Request(nextId + 1, cfg.name, _buildUrl(cfg.endpoint, filter),
                             filter, opts, Len(window[name].calls))}
             /\ nextId' = nextId + 1
             /\ cycle' = [cycle EXCEPT ![name].started = nextId + 1]

\* the debounce timer of a query expires: the debounced function runs with the
\* arguments of the last call
DebounceFire(name) ==
    /\ name \in DOMAIN timer
    /\ timer[name].pending
    /\ NoCallbackDue
    /\ timer' = [timer EXCEPT ![name] = NoTimer]
    /\ window' = [window EXCEPT ![name] = NoWindow]
    /\ _load(name, timer[name].args)
    /\ UNCHANGED <<options, config, autoLoaded, mounted, _queries, thrown, nLoads, lastCall>>

\* fetch(url) resolves with a response and the first callback runs:
\*   response => { if (!response.ok) throw new Error(response.statusText);
\*                 return response.json(); }
ThenResponse(r, ok, statusText, json) ==
    /\ r \in requests
    /\ r.pc = "fetch"
    /\ rendered' = FALSE
    /\ requests' = (requests \ {r}) \cup
           {IF ok THEN [r EXCEPT !.pc = "then2", !.json = json,
                                 !.late = (mounted = "gone")]
            ELSE [r EXCEPT !.pc = "then3", !.failed = TRUE, !.message = statusText,
                           !.late = (mounted = "gone")]}
    /\ UNCHANGED <<options, config, autoLoaded, mounted, _queries, _data, timer, nextId,
                   props, thrown, nLoads, lastCall, window, cycle>>

\* fetch(url) rejects: the network failed
FetchRejects(r, message) ==
    /\ r \in requests
    /\ r.pc = "fetch"
    /\ rendered' = FALSE
    /\ requests' = (requests \ {r}) \cup
           {[r EXCEPT !.pc = "then3", !.failed = TRUE, !.message = message,
                      !.late = (mounted = "gone")]}
    /\ UNCHANGED <<options, config, autoLoaded, mounted, _queries, _data, timer, nextId,
                   props, thrown, nLoads, lastCall, window, cycle>>

\* the transform callback with a slip: the transform is given the declared
\* filter instead of the filter the request was built with
ThenTransformDeclaredFilter(r) ==
    LET cfg == _queries[r.name]
        data == Get(_data, cfg.name)
        params == ParamsOf(options, cfg)
        result == CallTransform(cfg.transform, r.json, data, cfg.filter, params,
                                r.options)
    IN  /\ r \in requests
        /\ r.pc = "then2"
        /\ rendered' = FALSE
        /\ lastCall' = IF cfg.transform.v = "spyTransform"
                       THEN CallRecord(cfg.name, r.json, data, cfg.filter, params,
                                       r.options)
                       ELSE lastCall
        /\ IF result.threw
           THEN /\ requests' = (requests \ {r}) \cup
                       {[r EXCEPT !.pc = "then3", !.json = Undefined,
                                  !.failed = TRUE, !.message = result.message]}
                /\ UNCHANGED <<_data, cycle>>
           ELSE /\ requests' = (requests \ {r}) \cup
                       {[r EXCEPT !.pc = "then3", !.json = Undefined,
                                  !.before = data]}
                /\ _data' = Put(_data, cfg.name, result.value)
                /\ cycle' = [cycle EXCEPT ![r.name].dataBy = r.id]
        /\ UNCHANGED <<options, config, autoLoaded, mounted, _queries, timer, nextId, props,
                       thrown, nLoads, window>>

\* the transform callback with a slip: the transform is given the data of the
\* rendered snapshot, this.props[cfg.name], instead of this._data[cfg.name]
ThenTransformFromProps(r) ==
    LET cfg == _queries[r.name]
        data == Get(props, cfg.name)
        params == ParamsOf(options, cfg)
        result == CallTransform(cfg.transform, r.json, data, r.filter, params,
                                r.options)
    IN  /\ r \in requests
        /\ r.pc = "then2"
        /\ rendered' = FALSE
        /\ lastCall' = IF cfg.transform.v = "spyTransform"
                       THEN CallRecord(cfg.name, r.json, data, r.filter, params,
                                       r.options)
                       ELSE lastCall
        /\ IF result.threw
           THEN /\ requests' = (requests \ {r}) \cup
                       {[r EXCEPT !.pc = "then3", !.json = Undefined,
                                  !.failed = TRUE, !.message = result.message]}
                /\ UNCHANGED <<_data, cycle>>
           ELSE /\ requests' = (requests \ {r}) \cup
                       {[r EXCEPT !.pc = "then3", !.json = Undefined,
                                  !.before = data]}
                /\ _data' = Put(_data, cfg.name, result.value)
                /\ cycle' = [cycle EXCEPT ![r.name].dataBy = r.id]
        /\ UNCHANGED <<options, config, autoLoaded, mounted, _queries, timer, nextId, props,
                       thrown, nLoads, window>>

\* json => { this._data[cfg.name] = cfg.transform(json, this._data[cfg.name],
\*                                                filter, cfg.params, options); }
ThenTransform(r) ==
    LET cfg == _queries[r.name]
        data == Get(_data, cfg.name)
        params == ParamsOf(options, cfg)
        result == CallTransform(cfg.transform, r.json, data, r.filter, params,
                                r.options)
    IN  /\ r \in requests
        /\ r.pc = "then2"
        /\ rendered' = FALSE
        /\ lastCall' = IF cfg.transform.v = "spyTransform"
                       THEN CallRecord(cfg.name, r.json, data, r.filter, params,
                                       r.options)
                       ELSE lastCall
        /\ IF result.threw
           THEN /\ requests' = (requests \ {r}) \cup
                       {[r EXCEPT !.pc = "then3", !.json = Undefined,
                                  !.failed = TRUE, !.message = result.message]}
                /\ UNCHANGED <<_data, cycle>>
           ELSE /\ requests' = (requests \ {r}) \cup
                       {[r EXCEPT !.pc = "then3", !.json = Undefined,
                                  !.before = data]}
                /\ _data' = Put(_data, cfg.name, result.value)
                /\ cycle' = [cycle EXCEPT ![r.name].dataBy = r.id]
        /\ UNCHANGED <<options, config, autoLoaded, mounted, _queries, timer, nextId, props,
                       thrown, nLoads, window>>

\* the status callbacks with a slip: the rejection handler concatenates the
\* error itself, 'error: ' + err, which reads 'error: Error: <message>'
ThenStatusWholeError(r) ==
    LET status == _queries[r.name].name \o StatusSuffix IN
    /\ r \in requests
    /\ r.pc = "then3"
    /\ rendered' = FALSE
    /\ _data' = Put(_data, status,
                    IF r.failed THEN String("error: Error: " \o r.message)
                    ELSE String("ok"))
    /\ requests' = (requests \ {r}) \cup
           {[r EXCEPT !.pc = "then4", !.message = "", !.before = Undefined]}
    /\ cycle' = [cycle EXCEPT ![r.name].statusBy = r.id]
    /\ UNCHANGED <<options, config, autoLoaded, mounted, _queries, timer, nextId, props,
                   thrown, nLoads, lastCall, window>>

\* () => this._data[status] = 'ok',
\* (err) => this._data[status] = 'error: ' + err.message
\* the status callbacks with a slip: there is no rejection handler, so a failure
\* passes through the rest of the chain and nothing is written or rendered
ThenStatusWithoutHandler(r) ==
    LET status == _queries[r.name].name \o StatusSuffix IN
    /\ r \in requests
    /\ r.pc = "then3"
    /\ rendered' = FALSE
    /\ IF r.failed
       THEN /\ requests' = requests \ {r}
            /\ UNCHANGED <<_data, cycle>>
       ELSE /\ _data' = Put(_data, status, String("ok"))
            /\ requests' = (requests \ {r}) \cup
                   {[r EXCEPT !.pc = "then4", !.message = "", !.before = Undefined]}
            /\ cycle' = [cycle EXCEPT ![r.name].statusBy = r.id]
    /\ UNCHANGED <<options, config, autoLoaded, mounted, _queries, timer, nextId, props,
                   thrown, nLoads, lastCall, window>>

\* the status callbacks with a slip: they signal a re-render of their own
ThenStatusRendering(r) ==
    LET status == _queries[r.name].name \o StatusSuffix IN
    /\ r \in requests
    /\ r.pc = "then3"
    /\ _data' = Put(_data, status,
                    IF r.failed THEN String("error: " \o r.message) ELSE String("ok"))
    /\ props' = forceUpdate(_data')
    /\ rendered' = (mounted = "yes")
    /\ requests' = (requests \ {r}) \cup
           {[r EXCEPT !.pc = "then4", !.message = "", !.before = Undefined]}
    /\ cycle' = [cycle EXCEPT ![r.name].statusBy = r.id]
    /\ UNCHANGED <<options, config, autoLoaded, mounted, _queries, timer, nextId,
                   thrown, nLoads, lastCall, window>>

ThenStatus(r) ==
    LET status == _queries[r.name].name \o StatusSuffix IN
    /\ r \in requests
    /\ r.pc = "then3"
    /\ rendered' = FALSE
    /\ _data' = Put(_data, status,
                    IF r.failed THEN String("error: " \o r.message) ELSE String("ok"))
    /\ requests' = (requests \ {r}) \cup
           {[r EXCEPT !.pc = "then4", !.message = "", !.before = Undefined]}
    /\ cycle' = [cycle EXCEPT ![r.name].statusBy = r.id]
    /\ UNCHANGED <<options, config, autoLoaded, mounted, _queries, timer, nextId, props,
                   thrown, nLoads, lastCall, window>>

\* () => this.forceUpdate(): the chain ends
ThenForceUpdate(r) ==
    /\ r \in requests
    /\ r.pc = "then4"
    /\ props' = forceUpdate(_data)
    /\ rendered' = (mounted = "yes")
    /\ requests' = requests \ {r}
    /\ UNCHANGED <<options, config, autoLoaded, mounted, _queries, _data, timer, nextId,
                   thrown, nLoads, lastCall, window, cycle>>

-----------------------------------------------------------------------------
(* The specification *)

InitWith(bindings) ==
    /\ options \in bindings
    /\ config = EmptyObject
    /\ mounted = "no"
    /\ _queries = EmptyObject
    /\ _data = EmptyObject
    /\ timer = EmptyObject
    /\ requests = {}
    /\ nextId = 0
    /\ props = EmptyObject
    /\ thrown = ""
    /\ nLoads = 0
    /\ lastCall = NoCall
    /\ window = EmptyObject
    /\ cycle = EmptyObject
    /\ rendered = FALSE
    /\ autoLoaded = <<>>

Init == InitWith(Bindings)

\* the steps of a binding that mounts
Run ==
    \/ componentWillMount
    \/ \E name \in DOMAIN _queries, args \in LoadArgs :
          CallLoad(name, args[1], args[2])
    \/ \E name \in DOMAIN timer : DebounceFire(name)
    \/ \E r \in requests : ThenResponse(r, TRUE, "", Payload(r))
    \/ \E r \in requests, statusText \in Messages :
          ThenResponse(r, FALSE, statusText, Undefined)
    \/ \E r \in requests, message \in Messages : FetchRejects(r, message)
    \/ \E r \in requests : ThenTransform(r)
    \/ \E r \in requests : ThenStatus(r)
    \/ \E r \in requests : ThenForceUpdate(r)

Next ==
    \/ Run
    \/ MountThrows

Spec == Init /\ [][Next]_vars

\* a binding whose query names do not collide with a status key
SpecPlain == InitWith({<<QueryULimit, QueryV>>}) /\ [][Run]_vars

\* a binding with a query named as the status key of another
SpecCollide == InitWith({<<QueryU, QueryUStatus>>}) /\ [][Run]_vars

\* the same, with a host application that also calls load() with a name that
\* is not declared
NextUnknown ==
    \/ Next
    \/ \E args \in LoadArgs : CallLoad(UnknownName, args[1], args[2])

SpecUnknown == Init /\ [][NextUnknown]_vars

\* a binding that React may unmount at any moment
NextUnmount ==
    \/ Run
    \/ Unmount

SpecUnmount == InitWith({<<QueryULimit, QueryV>>}) /\ [][NextUnmount]_vars

\* bindings of one query, one for each kind of transform value
SpecResolve == InitWith(ResolveBindings) /\ [][Next]_vars

\* a query with the array transform or the object transform, loaded with the
\* options they read and answered with payloads of rows
TransformBindings ==
    { <<QueryT(String(<<"a","r","r","a","y">>))>>,
      <<QueryT(String(<<"o","b","j","e","c","t">>))>> }

RunTransform ==
    \/ componentWillMount
    \/ \E name \in DOMAIN _queries, args \in TransformLoadArgs :
          CallLoad(name, args[1], args[2])
    \/ \E name \in DOMAIN timer : DebounceFire(name)
    \/ \E r \in requests, json \in RowPayloads : ThenResponse(r, TRUE, "", json)
    \/ \E r \in requests : ThenTransform(r)
    \/ \E r \in requests : ThenStatus(r)
    \/ \E r \in requests : ThenForceUpdate(r)

SpecTransform == InitWith(TransformBindings) /\ [][RunTransform]_vars

\* a query without filter, with a filter and with an empty filter, of a host that
\* configures the store while they run
ConfigBindings == { <<QueryU>>, <<QueryULimit>>, <<QueryE>> }

NextConfig ==
    \/ componentWillMount
    \/ \E name \in DOMAIN _queries : CallLoad(name, EmptyObject, EmptyObject)
    \/ \E name \in DOMAIN timer : DebounceFire(name)
    \/ \E r \in requests : ThenResponse(r, TRUE, "", Payload(r))
    \/ \E r \in requests : ThenTransform(r)
    \/ \E r \in requests : ThenStatus(r)
    \/ \E r \in requests : ThenForceUpdate(r)
    \/ \E set \in ConfigSets : SetConfig(set[1], set[2])
    \/ \E map \in ConfigMaps : SetConfigMap(map)

SpecConfig == InitWith(ConfigBindings) /\ [][NextConfig]_vars

\* { name: name, endpoint: endpoint }
QueryEnd(name, endpoint) ==
    Query(name, String(endpoint), Undefined, Undefined, Undefined, Undefined)

\* the declarations of the normalization test, one binding each, and endpoints
\* with two slashes in a row
EndpointBindings ==
    { <<QueryEnd(Undefined, <<"u","s","e","r","s">>)>>,
      <<QueryEnd(Undefined, <<"/","u","s","e","r","s">>)>>,
      <<QueryEnd(Undefined, <<"u","s","e","r","s","/">>)>>,
      <<QueryEnd(Undefined, <<"/","u","s","e","r","s","/">>)>>,
      <<QueryEnd(Undefined, <<"u","s","e","r","s","/","1","/","o","r","d","e","r","s">>)>>,
      <<QueryEnd(String(<<"m","y","-","u","s","e","r","s">>), <<"u","s","e","r","s","/">>)>>,
      <<QueryEnd(Undefined, <<"/","/","u","s","e","r","s","/","/">>)>>,
      <<QueryEnd(Undefined, <<"a","/","/","b">>)>> }

SpecEndpoint == InitWith(EndpointBindings) /\ [][Run]_vars

\* a query that loads at the mount with one that does not, and queries whose
\* names are array indices
AutoLoadBindings ==
    { <<QueryULimit, QueryV>>,
      <<QueryEnd(Undefined, <<"b">>), QueryEnd(Undefined, <<"1">>)>>,
      <<QueryEnd(Undefined, <<"2">>), QueryEnd(Undefined, <<"1">>)>> }

\* the steps of a host that calls load() without arguments and whose fetches succeed
NextAutoLoad ==
    \/ componentWillMount
    \/ \E name \in DOMAIN _queries : CallLoad(name, EmptyObject, EmptyObject)
    \/ \E name \in DOMAIN timer : DebounceFire(name)
    \/ \E r \in requests : ThenResponse(r, TRUE, "", Payload(r))
    \/ \E r \in requests : ThenTransform(r)
    \/ \E r \in requests : ThenStatus(r)
    \/ \E r \in requests : ThenForceUpdate(r)

SpecAutoLoad == InitWith(AutoLoadBindings) /\ [][NextAutoLoad]_vars

\* a query that waits for load() and one that loads at the mount, of a host
\* that loads with options.append and whose fetches succeed
AppendBindings == { <<QueryA>>, <<QueryU>> }

NextAppend ==
    \/ componentWillMount
    \/ \E name \in DOMAIN _queries : CallLoad(name, EmptyObject, [append |-> TRUE])
    \/ \E name \in DOMAIN timer : DebounceFire(name)
    \/ \E r \in requests : ThenResponse(r, TRUE, "", Payload(r))
    \/ \E r \in requests : ThenTransform(r)
    \/ \E r \in requests : ThenStatus(r)
    \/ \E r \in requests : ThenForceUpdate(r)

SpecAppend == InitWith(AppendBindings) /\ [][NextAppend]_vars

\* a query with a custom transform that throws for the loads made with options
ThrowBindings == { <<QueryS>> }

NextThrow ==
    \/ componentWillMount
    \/ \E name \in DOMAIN _queries, opts \in {EmptyObject, [append |-> TRUE]} :
          CallLoad(name, EmptyObject, opts)
    \/ \E name \in DOMAIN timer : DebounceFire(name)
    \/ \E r \in requests : ThenResponse(r, TRUE, "", Payload(r))
    \/ \E r \in requests, statusText \in Messages :
          ThenResponse(r, FALSE, statusText, Undefined)
    \/ \E r \in requests : ThenTransform(r)
    \/ \E r \in requests : ThenStatus(r)
    \/ \E r \in requests : ThenForceUpdate(r)

SpecThrow == InitWith(ThrowBindings) /\ [][NextThrow]_vars

\* a binding with two declarations of one name, derived from the endpoint in the
\* first and given in the second
SpecSameName == InitWith({<<QueryU, QueryULimit>>}) /\ [][Run]_vars

-----------------------------------------------------------------------------
(* Vocabulary of the properties *)

\* this._data[name + '_status'] of a query
StatusOf(data, name) == Get(data, name \o StatusSuffix)

\* the promise chains (fetches) a step starts
Started == {r \in requests' : r.id > nextId}

\* the debounce timer of query q expires in this step, so _load(q) runs
Fires(q) == timer[q].pending /\ ~timer'[q].pending

\* the filter of a query for given params
FilterWith(cfg, params) ==
    IF cfg.filter.t = "function" THEN CallFilter(cfg.filter, params) ELSE cfg.filter

\* the params of the calls of a window merged in call order, key by key
RECURSIVE MergeCalls(_, _, _)
MergeCalls(base, calls, i) ==
    IF i > Len(calls) THEN base
    ELSE MergeCalls([k \in DOMAIN base \cup DOMAIN calls[i][1] |->
                        IF k \in DOMAIN calls[i][1] THEN calls[i][1][k] ELSE base[k]],
                    calls, i + 1)

\* the same, a call with options.resetParams first dropping what was stored
RECURSIVE MergeCallsReset(_, _, _)
MergeCallsReset(base, calls, i) ==
    IF i > Len(calls) THEN base
    ELSE LET kept == IF "resetParams" \in DOMAIN calls[i][2] /\ calls[i][2]["resetParams"]
                     THEN EmptyObject ELSE base
         IN  MergeCallsReset([k \in DOMAIN kept \cup DOMAIN calls[i][1] |->
                                 IF k \in DOMAIN calls[i][1] THEN calls[i][1][k]
                                 ELSE kept[k]],
                             calls, i + 1)

-----------------------------------------------------------------------------
(* C1 *)

-----------------------------------------------------------------------------
(* C2 *)

IsLoading(v) == v.t = "string" /\ v.v = "loading"
IsOk(v) == v.t = "string" /\ v.v = "ok"
IsError(v) == v.t = "string" /\ v.v \in {"error: " \o m : m \in Messages}
IsIdle(v) == v.t = "undefined"

\* C2: every change of a query's status is one of idle -> loading,
\* ok -> loading, error -> loading, loading -> ok, loading -> error.
C2_StatusTransitions ==
    [][\A q \in DOMAIN _queries :
          LET a == StatusOf(_data, q)
              b == StatusOf(_data', q)
          IN  a # b =>
                \/ (IsIdle(a) \/ IsOk(a) \/ IsError(a)) /\ IsLoading(b)
                \/ IsLoading(a) /\ (IsOk(b) \/ IsError(b))]_vars

-----------------------------------------------------------------------------
(* C3 *)

\* C3: once the responses of all the load cycles of a query have been applied,
\* its status is the one written by the cycle started last, and so is its data
\* when that cycle succeeded: the response of an earlier cycle that arrives later
\* is discarded.
C3_StaleResponseDiscarded ==
    \A q \in DOMAIN cycle :
        (cycle[q].started > 0 /\ \A r \in requests : r.name # q) =>
            /\ cycle[q].statusBy = cycle[q].started
            /\ IsOk(StatusOf(_data, q)) => cycle[q].dataBy = cycle[q].started

-----------------------------------------------------------------------------
(* C4 *)

\* a response of query q is half applied: its transform result is written (and
\* differs from the data it replaced), the status of its cycle is not yet
HalfApplied(data, reqs, q) ==
    \E r \in reqs :
        /\ r.name = q
        /\ r.pc = "then3"
        /\ ~r.failed
        /\ Get(data, q) # r.before

-----------------------------------------------------------------------------
(* C5 *)

\* C5: once mounted, the data entry of a query q changes only in the transform
\* step of a load cycle of q itself.
C5_DataWrittenByOwnTransform ==
    [][\A q \in DOMAIN _queries :
          Get(_data', q) # Get(_data, q) =>
              \E r \in requests : r.name = q /\ r.pc = "then2" /\ r \notin requests']_vars

-----------------------------------------------------------------------------
(* C6 *)

\* the fetch of chain r is answered in this step and the answer is a failure
FetchFails(r) ==
    /\ r \in requests
    /\ r.pc = "fetch"
    /\ r \notin requests'
    /\ \E r2 \in requests' : r2.id = r.id /\ r2.failed

\* the rejection handler of chain r runs in this step
Rejected(r) ==
    /\ r \in requests
    /\ r.pc = "then3"
    /\ r.failed
    /\ r \notin requests'

\* C6: a load() of a declared query raises nothing; the step that starts a
\* cycle of q and the arrival of a failure (network failure, or a response not
\* ok with status text m) write no data and raise nothing; the rejection handler
\* then leaves the data of q as it is and sets the status of q to 'error: ' + m.
C6_FailureBecomesErrorStatus ==
    [][/\ nLoads' # nLoads => thrown' = ""
       /\ \A r \in Started :
             Get(_data', r.name) = Get(_data, r.name) /\ thrown' = thrown
       /\ \A r \in requests :
             /\ FetchFails(r) =>
                   /\ \A r2 \in requests' :
                         r2.id = r.id => r2.pc = "then3" /\ r2.message \in Messages
                   /\ _data' = _data
                   /\ thrown' = thrown
             /\ Rejected(r) =>
                   /\ Get(_data', r.name) = Get(_data, r.name)
                   /\ StatusOf(_data', r.name) = String("error: " \o r.message)
                   /\ thrown' = thrown]_vars

\* a failed cycle has set the status to the message of the failure
C6_Witness ==
    \E r \in requests :
        /\ r.pc = "then4"
        /\ r.failed
        /\ StatusOf(_data, r.name) = String("error: Some error message")
        /\ Get(_data, r.name) = Array(<<>>)
        /\ thrown = ""

-----------------------------------------------------------------------------
(* C7 *)

\* the wrapper has just been mounted: no timer has fired, load() was not called
JustMounted ==
    /\ mounted = "yes"
    /\ nLoads = 0
    /\ nextId = 0
    /\ \A q \in DOMAIN _queries : Truthy(_queries[q].autoLoad) => timer[q].pending

\* C7: immediately after mount the snapshot shows every auto-loading query with
\* status 'loading' and the empty sequence as data.
C7_LoadingRightAfterMount ==
    JustMounted =>
        \A q \in DOMAIN _queries :
            Truthy(_queries[q].autoLoad) =>
                /\ IsLoading(StatusOf(props, q))
                /\ Get(props, q) = Array(<<>>)

-----------------------------------------------------------------------------
(* C8 *)

\* the transform callback of chain r runs in this step
Transforms(r) ==
    /\ r \in requests
    /\ r.pc = "then2"
    /\ r \notin requests'

\* C8: a cycle of q is started with the filter q evaluates to, the URL built from
\* it and the options of the last load() call; a payload that arrives is handed
\* on as it is; the transform is then invoked once, with (payload, data of q at
\* that moment, that filter, the stored params of q, those options), and the data
\* of q becomes what it returns: nothing for the custom transform of the test,
\* the payload for the array transform without options, the old rows followed by
\* the payload with append; the next callback sets the status of q to 'ok'.
C8_SuccessAppliesTransform ==
    [][/\ \A r \in Started :
             LET cfg == _queries[r.name]
                 calls == window[r.name].calls
             IN  /\ r.filter = FilterWith(cfg, ParamsOf(options, cfg))
                 /\ r.url = _buildUrl(cfg.endpoint, r.filter)
                 /\ Len(calls) > 0
                 /\ r.options = calls[Len(calls)][2]
       /\ \A r \in requests :
             /\ (r.pc = "fetch" /\ r \notin requests') =>
                   \A r2 \in requests' :
                       (r2.id = r.id /\ ~r2.failed) =>
                           r2.pc = "then2" /\ r2.json = Payload(r)
             /\ Transforms(r) =>
                   LET cfg == _queries[r.name]
                       data == Get(_data, r.name)
                   IN  /\ cfg.transform.v = "spyTransform" =>
                             /\ lastCall' = CallRecord(r.name, r.json, data, r.filter,
                                                       ParamsOf(options, cfg), r.options)
                             /\ Get(_data', r.name) = Undefined
                       /\ (cfg.transform.v = "_transform_array"
                             /\ ~OptionOr(r.options, "append", FALSE)) =>
                             Get(_data', r.name) = r.json
                       /\ (cfg.transform.v = "_transform_array"
                             /\ OptionOr(r.options, "append", FALSE)
                             /\ data.t = "array") =>
                             Get(_data', r.name) = Array(data.v \o r.json.v)
             /\ (r.pc = "then3" /\ ~r.failed /\ r \notin requests') =>
                   IsOk(StatusOf(_data', r.name))
       /\ lastCall' # lastCall => \E r \in requests : Transforms(r)]_vars

\* a cycle of the query with the custom transform has succeeded
C8_Witness ==
    \E r \in requests :
        /\ r.pc = "then4"
        /\ ~r.failed
        /\ lastCall.name = r.name
        /\ lastCall.json = Payload(r)
        /\ lastCall.filter = Object([limit |-> 30, skip |-> 30])
        /\ Get(_data, r.name) = Undefined
        /\ IsOk(StatusOf(_data, r.name))

-----------------------------------------------------------------------------
(* C9 *)

\* C9: when the debounce timer of q expires and the filter of q is false (a
\* static false, or a filter function returning false for the stored params),
\* no fetch is issued, nothing is rendered, and no data and no status changes.
C9_FalseFilterIsNoOp ==
    [][\A q \in DOMAIN timer :
          (Fires(q) /\ IsFalse(FilterWith(_queries[q], ParamsOf(options, _queries[q]))))
              => /\ Started = {}
                 /\ requests' = requests
                 /\ ~rendered'
                 /\ props' = props
                 /\ _data' = _data]_vars

\* the timer of an auto-loading query has expired and no cycle was started
C9_Witness ==
    /\ mounted = "yes"
    /\ \E q \in DOMAIN _queries :
          /\ Truthy(_queries[q].autoLoad)
          /\ IsFalse(_queries[q].filter)
          /\ ~timer[q].pending
          /\ cycle[q].started = 0
          /\ IsIdle(StatusOf(props, q))
          /\ Get(props, q) = Array(<<>>)

-----------------------------------------------------------------------------
(* C10 *)

\* C10: load() with a name that is not declared raises an error to its caller,
\* whatever the params and options, and leaves the declarations, the params,
\* the data, the status entries and the timers of the queries as they are; no
\* fetch is issued.
C10_UnknownNameRaises ==
    [][\A args \in LoadArgs :
          CallLoad(UnknownName, args[1], args[2]) =>
              /\ thrown' # ""
              /\ Started = {}
              /\ UNCHANGED <<options, _queries, _data, timer, requests, props>>]_vars

\* a load() of an undeclared name has raised
C10_Witness ==
    /\ mounted = "yes"
    /\ UnknownName \notin DOMAIN _queries
    /\ thrown = "TypeError"

-----------------------------------------------------------------------------
(* C11 *)

\* C11: after load(q, p, o) the stored params of q are the params stored before
\* the call (none of them when o.resetParams is true) overridden key by key
\* with p; the stored params of every other query are unchanged.
C11_LoadMergesParams ==
    [][\A name \in DOMAIN _queries, args \in LoadArgs :
          CallLoad(name, args[1], args[2]) =>
              LET before == ParamsOf(options, _queries[name])
                  kept == IF OptionOr(args[2], "resetParams", FALSE)
                          THEN EmptyObject ELSE before
                  after == ParamsOf(options', _queries'[name])
              IN  /\ DOMAIN after = DOMAIN kept \cup DOMAIN args[1]
                  /\ \A k \in DOMAIN after :
                        after[k] = IF k \in DOMAIN args[1] THEN args[1][k] ELSE kept[k]
                  /\ \A q \in DOMAIN _queries \ {name} :
                        ParamsOf(options', _queries'[q]) = ParamsOf(options, _queries[q])]_vars

\* a query declared with params {page: 1} was loaded with {id: 7}, then with
\* resetParams: nothing is stored any more
C11_Witness ==
    /\ nLoads = 2
    /\ \E q \in DOMAIN _queries :
          /\ Len(window[q].calls) = 2
          /\ window[q].base = [page |-> 1]
          /\ window[q].calls[1][1] = [id |-> 7]
          /\ OptionOr(window[q].calls[2][2], "resetParams", FALSE)
          /\ ParamsOf(options, _queries[q]) = EmptyObject

-----------------------------------------------------------------------------
(* C12 *)

\* C12: once the wrapper is unmounted, no debounce timer of it runs a load
\* cycle: no fetch is issued and no status changes.
C12_NoCycleAfterUnmount ==
    [][mounted = "gone" =>
          /\ Started = {}
          /\ \A q \in DOMAIN timer :
                Fires(q) => StatusOf(_data', q) = StatusOf(_data, q)]_vars

-----------------------------------------------------------------------------
(* C13 *)

\* a callback of the promise chain r runs in this step
Continues(r) ==
    /\ r \in requests
    /\ r \notin requests'

\* C13: when a fetch issued while the wrapper was mounted is answered after the
\* unmount, with a payload or with a failure, the callbacks of its chain write
\* no data and no status.
C13_ResultDiscardedAfterUnmount ==
    [][\A r \in requests :
          (r.live /\ r.late /\ Continues(r)) => _data' = _data]_vars

-----------------------------------------------------------------------------
(* C14 *)

\* C14: the arrival of a transport failure of a query and the rejection
\* handler that records it leave the data, the status, the stored params and
\* the timer of every other query as they are.
C14_FailureIsIsolated ==
    [][\A r \in requests :
          (FetchFails(r) \/ (Rejected(r) /\ r.message \in Messages)) =>
              \A q \in DOMAIN _queries \ {r.name} :
                  /\ Get(_data', q) = Get(_data, q)
                  /\ StatusOf(_data', q) = StatusOf(_data, q)
                  /\ ParamsOf(options', _queries'[q]) = ParamsOf(options, _queries[q])
                  /\ timer'[q] = timer[q]]_vars

-----------------------------------------------------------------------------
(* C15 *)

\* C15: a load() of one query leaves the pending call of every other query as
\* it is, and so does the expiry of a timer; the timer of a query starts at most
\* one fetch, of that query, with the options of the last load() of that query.
C15_DebouncePerQuery ==
    [][/\ \A name \in DOMAIN _queries, args \in LoadArgs :
             CallLoad(name, args[1], args[2]) =>
                 \A q \in DOMAIN timer \ {name} : timer'[q] = timer[q]
       /\ \A q \in DOMAIN timer :
             Fires(q) =>
                 /\ \A q2 \in DOMAIN timer \ {q} : timer'[q2] = timer[q2]
                 /\ Cardinality(Started) <= 1
                 /\ \A r \in Started :
                       /\ r.name = q
                       /\ r.options = window[q].calls[Len(window[q].calls)][2]]_vars

\* the timer of one query has started its fetch with its own options while
\* another query, loaded with other options, is still pending
C15_Witness ==
    \E r \in requests :
        \E q2 \in DOMAIN timer \ {r.name} :
            /\ r.pc = "fetch"
            /\ r.options = [append |-> TRUE]
            /\ timer[q2].pending
            /\ timer[q2].args = [resetParams |-> TRUE]

-----------------------------------------------------------------------------
(* C16 *)

\* C16: a query whose status is an error can be loaded again: load() arms its
\* timer; when the timer expires and the filter is not false the status becomes
\* 'loading' and one fetch of the query is issued; and a cycle that was answered
\* with a payload ends with the transformed data and the status 'ok', however
\* many cycles came before it.
C16_ReloadableAfterError ==
    [][/\ \A name \in DOMAIN _queries, args \in LoadArgs :
             (IsError(StatusOf(_data, name)) /\ CallLoad(name, args[1], args[2])) =>
                 timer'[name] = [pending |-> TRUE, args |-> args[2]]
       /\ \A q \in DOMAIN timer :
             (/\ IsError(StatusOf(_data, q))
              /\ Fires(q)
              /\ ~IsFalse(FilterWith(_queries[q], ParamsOf(options, _queries[q])))) =>
                 /\ IsLoading(StatusOf(_data', q))
                 /\ \E r \in Started : Started = {r} /\ r.name = q
       /\ \A r \in requests :
             (r.pc = "then3" /\ ~r.failed /\ Continues(r)) =>
                 /\ IsOk(StatusOf(_data', r.name))
                 /\ Get(_data', r.name) = Get(_data, r.name)]_vars

\* the last cycle of a query ended with an error and a reload of it is pending
C16_Witness ==
    \E q \in DOMAIN timer :
        /\ IsError(StatusOf(_data, q))
        /\ cycle[q].started > 0
        /\ cycle[q].statusBy = cycle[q].started
        /\ \A r \in requests : r.name # q
        /\ timer[q].pending
        /\ ~IsFalse(FilterWith(_queries[q], ParamsOf(options, _queries[q])))

-----------------------------------------------------------------------------
(* C17 *)

\* C17: a binding whose declarations normalize to two entries of one name does
\* not mount: every mounted instance has one entry of this._queries per
\* declaration.
C17_OneEntryPerDeclaration ==
    mounted = "yes" => Cardinality(DOMAIN _queries) = Len(options)

-----------------------------------------------------------------------------
(* C18 *)

\* the function a declared transform stands for, Undefined when it stands for none
Resolved(transform) ==
    IF transform.t = "undefined" \/ transform = String(<<"a","r","r","a","y">>)
    THEN Function("_transform_array")
    ELSE IF transform = String(<<"o","b","j","e","c","t">>)
    THEN Function("_transform_object")
    ELSE IF transform.t = "function"
    THEN transform
    ELSE Undefined

\* C18: in a mounted instance the transform of every query is, and stays, the
\* function its declaration stands for: the built-in transforms for 'array',
\* 'object' and an absent transform, the declared function itself otherwise. A
\* declaration with any other transform makes the mount fail with an error and
\* produces no query.
C18_TransformResolved ==
    /\ mounted = "yes" =>
          \A i \in 1..Len(options) :
              /\ Resolved(options[i].transform) # Undefined
              /\ \E q \in DOMAIN _queries :
                    _queries[q].transform = Resolved(options[i].transform)
    /\ (\E i \in 1..Len(options) : Resolved(options[i].transform) = Undefined) =>
          /\ mounted \in {"no", "failed"}
          /\ _queries = EmptyObject
    /\ mounted = "failed" =>
          /\ \E i \in 1..Len(options) : Resolved(options[i].transform) = Undefined
          /\ thrown \in {"Unknown type of transform option:undefined",
                          "Unknown type of transform option:number"}

\* a query declared with transform 'object' is mounted and has run a cycle
C18_Witness ==
    /\ mounted = "yes"
    /\ options[1].transform = String(<<"o","b","j","e","c","t">>)
    /\ \A q \in DOMAIN _queries : _queries[q].transform = Function("_transform_object")
    /\ \E q \in DOMAIN _queries : Get(_data, q) = Object(2 :> [id |-> 2])

-----------------------------------------------------------------------------
(* C19 *)

\* C19: the array transform, given the payload json and the previous data,
\* returns with options.append the previous rows followed by the rows of json,
\* and json itself otherwise; the previous data, which the rendered snapshot
\* still holds, is left as it was.
C19_ArrayTransform ==
    [][\A r \in requests :
          (Transforms(r) /\ _queries[r.name].transform = Function("_transform_array")) =>
              LET data == Get(_data, r.name)
                  new == Get(_data', r.name)
              IN  /\ IF OptionOr(r.options, "append", FALSE)
                     THEN /\ new.t = "array"
                          /\ Len(new.v) = Len(data.v) + Len(r.json.v)
                          /\ \A i \in 1..Len(data.v) : new.v[i] = data.v[i]
                          /\ \A j \in 1..Len(r.json.v) :
                                new.v[Len(data.v) + j] = r.json.v[j]
                     ELSE new = r.json
                  /\ props' = props
                  /\ \A r2 \in requests' : r2.id = r.id => r2.before = data]_vars

\* rows were appended to rows
C19_Witness ==
    \E r \in requests :
        /\ r.pc = "then3"
        /\ ~r.failed
        /\ _queries[r.name].transform = Function("_transform_array")
        /\ r.options = [append |-> TRUE]
        /\ r.before = Array(<<[id |-> 1, key |-> 10, v |-> 1]>>)
        /\ Get(_data, r.name) =
               Array(<<[id |-> 1, key |-> 10, v |-> 1],
                       [id |-> 1, key |-> 20, v |-> 2],
                       [id |-> 2, key |-> 20, v |-> 3]>>)

-----------------------------------------------------------------------------
(* C20 *)

\* the row of rows that a mapping by the field id keeps for the key k: the last
LastRow(rows, id, k) ==
    rows[CHOOSE i \in 1..Len(rows) :
            /\ rows[i][id] = k
            /\ \A j \in (i + 1)..Len(rows) : rows[j][id] # k]

\* C20: the object transform maps the rows of json by the field options.id
\* ('id' when not given); with options.reset it returns that mapping alone,
\* otherwise the previous mapping with the keys of the new one added or
\* replaced; the previous data, which the rendered snapshot still holds, is left
\* as it was.
C20_ObjectTransform ==
    [][\A r \in requests :
          (Transforms(r) /\ _queries[r.name].transform = Function("_transform_object")) =>
              LET data == Get(_data, r.name)
                  new == Get(_data', r.name)
                  id == IF "id" \in DOMAIN r.options THEN r.options["id"] ELSE "id"
                  rows == r.json.v
                  keys == {rows[i][id] : i \in 1..Len(rows)}
                  old == IF data.t = "object" THEN data.v ELSE EmptyObject
                  kept == IF OptionOr(r.options, "reset", FALSE)
                          THEN {} ELSE DOMAIN old \ keys
              IN  /\ new.t = "object"
                  /\ DOMAIN new.v = keys \cup kept
                  /\ \A k \in keys : new.v[k] = LastRow(rows, id, k)
                  /\ \A k \in kept : new.v[k] = old[k]
                  /\ props' = props
                  /\ \A r2 \in requests' : r2.id = r.id => r2.before = data]_vars

\* a payload replaced the row of a key the previous mapping had, and added a key
C20_Witness ==
    \E r \in requests :
        /\ r.pc = "then3"
        /\ ~r.failed
        /\ _queries[r.name].transform = Function("_transform_object")
        /\ r.before = Object(1 :> [id |-> 1, key |-> 10, v |-> 1])
        /\ Get(_data, r.name) =
               Object(1 :> [id |-> 1, key |-> 20, v |-> 2]
                      @@ 2 :> [id |-> 2, key |-> 20, v |-> 3])

-----------------------------------------------------------------------------
(* C21 *)

\* the percent-encoded JSON text of the filters of the bindings
EncodedJson(filter) ==
    CASE filter = Object(EmptyObject) -> <<"%","7","B","%","7","D">>
      [] filter = Object([limit |-> 10]) -> <<"%","7","B","%","2","2","l","i","m","i","t","%","2","2","%","3","A","1","0","%","7","D">>
      [] filter = Object([limit |-> 30, skip |-> 0]) ->
             <<"%","7","B","%","2","2","l","i","m","i","t","%","2","2","%","3","A","3","0","%","2","C","%","2","2","s","k","i","p","%","2","2","%","3","A","0","%","7","D">>
      [] filter = Object([limit |-> 30, skip |-> 30]) ->
             <<"%","7","B","%","2","2","l","i","m","i","t","%","2","2","%","3","A","3","0","%","2","C","%","2","2","s","k","i","p","%","2","2","%","3","A","3","0","%","7","D">>
      [] OTHER -> <<>>

\* the config store holds a non-empty access_token
HoldsToken ==
    /\ "access_token" \in DOMAIN config
    /\ config["access_token"].t = "string"
    /\ config["access_token"].v # <<>>

\* the URL of the claim: the base URL and the endpoint, the filter segment when
\* there is one, and the access_token parameter when the store holds one
UrlOf(endpoint, filter, segment) ==
    _getBaseUrl \o endpoint
        \o (IF segment THEN <<"?","f","i","l","t","e","r","=">> \o EncodedJson(filter) ELSE <<>>)
        \o (IF HoldsToken
            THEN (IF segment THEN <<"&">> ELSE <<"?">>)
                     \o <<"a","c","c","e","s","s","_","t","o","k","e","n","=">> \o config["access_token"].v
            ELSE <<>>)

\* C21 as stated: buildUrl(endpoint, filter) returns baseUrl() + endpoint, followed
\* by '?filter=' and the percent-encoded JSON of filter if and only if filter is
\* neither undefined nor empty, followed by the access_token parameter if and only
\* if the store holds a non-empty access_token, introduced by '&' after a filter
\* segment and by '?' otherwise; the call changes no state.
C21_AsStated ==
    [][\A q \in DOMAIN timer : Fires(q) =>
          /\ \A r \in Started :
                r.url = UrlOf(_queries[q].endpoint, r.filter,
                              r.filter # Undefined /\ r.filter # Object(EmptyObject))
          /\ UNCHANGED <<config, options, _queries>>]_vars

\* C21 as amended: the filter segment is appended if and only if filter is truthy,
\* which an empty object is; the rest as stated.
C21_UrlBuilt ==
    [][\A q \in DOMAIN timer : Fires(q) =>
          /\ Started # {}
          /\ \A r \in Started :
                r.url = UrlOf(_queries[q].endpoint, r.filter, Truthy(r.filter))
          /\ UNCHANGED <<config, options, _queries>>]_vars

\* the URL of an empty filter was built under a base URL and an access token
C21_Witness ==
    \E r \in requests :
        /\ r.filter = Object(EmptyObject)
        /\ r.url = <<"h","/","e","?","f","i","l","t","e","r","=","%","7","B","%","7","D","&","a","c","c","e","s","s","_","t","o","k","e","n","=","k">>

-----------------------------------------------------------------------------
(* C22 *)

\* the baseUrl the config store holds, the empty string when it holds none
StoredBaseUrl == IF "baseUrl" \in DOMAIN config THEN config["baseUrl"].v ELSE <<>>

\* C22: for every configured baseUrl (unset, empty, ending without '/', ending with
\* one '/'), baseUrl() returns a string that ends with exactly one '/': one is
\* added when absent and none is added when already present.
C22_BaseUrlOneSlash ==
    LET stored == StoredBaseUrl
        base == _getBaseUrl
        n == Len(base)
    IN  /\ n >= 1
        /\ base[n] = "/"
        /\ n >= 2 => base[n - 1] # "/"
        /\ base = IF stored # <<>> /\ stored[Len(stored)] = "/"
                  THEN stored ELSE stored \o <<"/">>

\* a URL was built while the store held a baseUrl that ends with '/'
C22_Witness ==
    /\ StoredBaseUrl = <<"h","/">>
    /\ \E r \in requests : r.url = <<"h","/","u">>

-----------------------------------------------------------------------------
(* C23 *)

\* the name and the endpoint the claim gives a declaration
NormalizedAs(q) ==
    CASE q.name = String(<<"m","y","-","u","s","e","r","s">>) -> <<<<"m","y","-","u","s","e","r","s">>, <<"u","s","e","r","s">>>>
      [] q.endpoint.v \in {<<"u","s","e","r","s">>, <<"/","u","s","e","r","s">>, <<"u","s","e","r","s","/">>, <<"/","u","s","e","r","s","/">>} ->
             <<<<"u","s","e","r","s">>, <<"u","s","e","r","s">>>>
      [] q.endpoint.v = <<"u","s","e","r","s","/","1","/","o","r","d","e","r","s">> -> <<<<"u","s","e","r","s","-","1","-","o","r","d","e","r","s">>, <<"u","s","e","r","s","/","1","/","o","r","d","e","r","s">>>>
      [] q.endpoint.v = <<"/","/","u","s","e","r","s","/","/">> -> <<<<"-","u","s","e","r","s","-">>, <<"/","u","s","e","r","s","/">>>>
      [] q.endpoint.v = <<"a","/","/","b">> -> <<<<"a","-","b">>, <<"a","/","/","b">>>>

\* C23: normalization strips at most one leading and at most one trailing '/' from
\* the endpoint, and the name is the supplied name when one is given, otherwise the
\* stripped endpoint with every maximal run of non-word characters replaced by a
\* single '-'.
C23_EndpointAndName ==
    mounted = "yes" =>
        LET as == NormalizedAs(options[1]) IN
        /\ DOMAIN _queries = {as[1]}
        /\ _queries[as[1]].name = as[1]
        /\ _queries[as[1]].endpoint = as[2]
        /\ DOMAIN timer = {as[1]}
        /\ as[1] \in DOMAIN _data
        /\ \A r \in requests : r.name = as[1] /\ r.url = <<"/">> \o as[2]

\* the query declared with the endpoint 'users/1/orders' fetched its URL
C23_Witness ==
    \E r \in requests :
        /\ r.name = <<"u","s","e","r","s","-","1","-","o","r","d","e","r","s">>
        /\ r.url = <<"/","u","s","e","r","s","/","1","/","o","r","d","e","r","s">>

-----------------------------------------------------------------------------
(* C24 *)

\* C24: the config store returns from get(key) the value most recently assigned to
\* key by set(key, value) or by a bulk set(map) containing key, a bulk set leaves
\* keys not in the map unchanged, and every URL is built from the baseUrl and
\* access_token values the store holds at the moment the load cycle executes, not
\* the values held at mount time or at the time load() was called.
C24_ConfigReadLatest ==
    [][/\ \A set \in ConfigSets : SetConfig(set[1], set[2]) =>
             /\ ConfigGet(set[1])' = set[2]
             /\ \A k \in {"baseUrl", "access_token"} \ {set[1]} :
                   ConfigGet(k)' = ConfigGet(k)
       /\ \A map \in ConfigMaps : SetConfigMap(map) =>
             /\ \A k \in DOMAIN map : ConfigGet(k)' = map[k]
             /\ \A k \in {"baseUrl", "access_token"} \ DOMAIN map :
                   ConfigGet(k)' = ConfigGet(k)
       /\ config' # config =>
             \/ \E set \in ConfigSets : SetConfig(set[1], set[2])
             \/ \E map \in ConfigMaps : SetConfigMap(map)
       /\ \A q \in DOMAIN timer : Fires(q) =>
             \A r \in Started :
                 LET base == IF Truthy(ConfigGet("baseUrl"))
                             THEN ConfigGet("baseUrl").v ELSE <<>>
                     token == IF Truthy(ConfigGet("access_token"))
                              THEN ConfigGet("access_token").v ELSE <<>>
                     n == Len(base) + (IF base # <<>> /\ base[Len(base)] = "/"
                                       THEN 0 ELSE 1)
                 IN  /\ SubSeq(r.url, 1, Len(base)) = base
                     /\ r.url[n] = "/"
                     /\ SubSeq(r.url, n + 1, n + Len(_queries[q].endpoint))
                            = _queries[q].endpoint
                     /\ IF token = <<>>
                        THEN \A i \in 1..Len(r.url) : r.url[i] # "="
                                 \/ SubSeq(r.url, i - 6, i) = <<"f","i","l","t","e","r","=">>
                        ELSE SubSeq(r.url, Len(r.url) - Len(token) - 12, Len(r.url))
                                 = <<"a","c","c","e","s","s","_","t","o","k","e","n","=">> \o token]_vars

\* the only load() was the automatic one of the mount, when the store was empty,
\* and the URL fetched carries the baseUrl and the access_token set since
C24_Witness ==
    /\ nLoads = 0
    /\ \E r \in requests : r.url = <<"h","/","u","?","a","c","c","e","s","s","_","t","o","k","e","n","=","k">>

-----------------------------------------------------------------------------
(* C25 *)

\* C25: the stored params of a query are owned by one mounted instance: load(q, p)
\* never mutates the params object the author supplied in the query declaration,
\* which is the object every other mounted instance of the binding reads its
\* params of q from.
C25_DeclaredParamsUntouched ==
    [][\A i \in 1..Len(options) : options'[i].params = options[i].params]_vars

-----------------------------------------------------------------------------
(* C26 *)

\* the chain r after this step, if it goes on
After(r) == {r2 \in requests' : r2.id = r.id}

\* C26: each load cycle that issued a fetch signals a re-render exactly once after
\* its completion, and that signal comes after both the data write (on success)
\* and the ok/error status write of that cycle: the callbacks of a chain run in
\* the order answer, transform (on success), status, signal; only the last one
\* renders, it renders what the cycle wrote, and the chain ends with it.
C26_OneSignalAtTheEnd ==
    [][\A r \in requests : Continues(r) =>
          LET status == StatusOf(_data', r.name) IN
          CASE r.pc = "fetch" ->
                   /\ \E r2 \in After(r) :
                         r2.pc = IF r2.failed THEN "then3" ELSE "then2"
                   /\ ~rendered' /\ props' = props /\ _data' = _data
            [] r.pc = "then2" ->
                   /\ \E r2 \in After(r) : r2.pc = "then3"
                   /\ ~rendered' /\ props' = props
                   /\ StatusOf(_data', r.name) = StatusOf(_data, r.name)
            [] r.pc = "then3" ->
                   /\ \E r2 \in After(r) : r2.pc = "then4"
                   /\ ~rendered' /\ props' = props
                   /\ IF r.failed THEN IsError(status) ELSE IsOk(status)
                   /\ Get(_data', r.name) = Get(_data, r.name)
            [] r.pc = "then4" ->
                   /\ After(r) = {}
                   /\ rendered' /\ props' = _data /\ _data' = _data]_vars

\* a cycle wrote its data, then its status, and signalled the re-render that
\* shows both
C26_Witness ==
    /\ rendered
    /\ \E q \in DOMAIN cycle :
          /\ cycle[q].dataBy # 0
          /\ cycle[q].dataBy = cycle[q].statusBy
          /\ \A r \in requests : r.id # cycle[q].dataBy
          /\ IsOk(StatusOf(props, q))
          /\ Get(props, q) = Array(<<[id |-> cycle[q].dataBy]>>)

-----------------------------------------------------------------------------
(* C27 *)

\* the names of the declared queries, in declaration order
DeclaredNames ==
    [i \in 1..Len(options) |-> _normalizeQueries(options).value[i].name]

\* the name is that of a query that loads at the mount
AutoLoads(name) == Truthy(_queries[name].autoLoad)

\* a query that does not load at the mount is as the mount left it until load()
\* is called for it: no timer, no cycle, no fetch, and its first data and status
UntouchedUntilLoaded ==
    \A q \in DOMAIN _queries : ~AutoLoads(q) =>
        /\ nLoads = 0 => ~timer[q].pending /\ cycle[q].started = 0
        /\ cycle[q].started = 0 =>
              /\ \A r \in requests : r.name # q
              /\ Get(_data, q) = Array(<<>>)
              /\ StatusOf(_data, q) = Undefined
              /\ Get(props, q) = Array(<<>>)
              /\ StatusOf(props, q) = Undefined

\* right after the mount every query that loads at the mount has one load() call
\* in its debounce window
OneCallEach ==
    nLoads = 0 /\ nextId = 0 =>
        \A q \in DOMAIN _queries : AutoLoads(q) =>
            timer[q].pending /\ Len(window[q].calls) = 1

-----------------------------------------------------------------------------
(* C28 *)

\* what the filter function of the bindings returns for the page of the params
PageFilterResult(params) ==
    LET page == IF "page" \in DOMAIN params THEN params["page"] ELSE 0 IN
    CASE page = 1 -> Object([limit |-> 30, skip |-> 0])
      [] page = 2 -> Object([limit |-> 30, skip |-> 30])
      [] OTHER -> Bool(FALSE)

\* C28: when a query's filter is a function, the filter value used to build the
\* request URL of a load cycle is the function's result on the query's stored
\* params (declared defaults merged with every params argument of load() so far,
\* counted from the last call with resetParams); a static filter is used as is.
C28_FilterOnStoredParams ==
    [][\A q \in DOMAIN timer : Fires(q) =>
          LET cfg == _queries[q]
              stored == MergeCallsReset(window[q].base, window[q].calls, 1)
              expected == IF cfg.filter.t = "function"
                          THEN PageFilterResult(stored)
                          ELSE cfg.filter
          IN  /\ ParamsOf(options, cfg) = stored
              /\ \E i \in 1..Len(options) : options[i].filter = cfg.filter
              /\ IF expected = Bool(FALSE)
                 THEN Started = {}
                 ELSE /\ Started # {}
                      /\ \A r \in Started :
                            /\ r.filter = expected
                            /\ r.url = <<"/">> \o cfg.endpoint
                                   \o (IF expected = Undefined THEN <<>>
                                       ELSE <<"?","f","i","l","t","e","r","=">> \o EncodedJson(expected))]_vars

\* the query declared with params {page: 1} was loaded with {page: 2} and the URL
\* carries the filter of page 2
C28_Witness ==
    \E r \in requests :
        /\ r.name = <<"v">>
        /\ options[2].params = Object([page |-> 2])
        /\ r.filter = Object([limit |-> 30, skip |-> 30])
        /\ r.url = <<"/","v","?","f","i","l","t","e","r","=","%","7","B","%","2","2","l","i","m","i","t","%","2","2","%","3","A","3","0","%","2","C","%","2","2","s","k","i","p","%","2","2","%","3","A","3","0","%","7","D">>

-----------------------------------------------------------------------------
(* C29 *)

\* C29: immediately after construction/mount and before any load cycle has
\* executed, every declared query has status 'idle' and data equal to the empty
\* sequence, and the snapshot has a data entry and a status entry for every
\* declared query.
C29_IdleAfterMount ==
    (mounted = "yes" /\ \A q \in DOMAIN cycle : cycle[q].started = 0) =>
        \A q \in DOMAIN _queries :
            /\ q \in DOMAIN props
            /\ props[q] = Array(<<>>)
            /\ (q \o StatusSuffix) \in DOMAIN props
            /\ ~IsLoading(StatusOf(props, q))
            /\ ~IsOk(StatusOf(props, q))
            /\ ~IsError(StatusOf(props, q))

-----------------------------------------------------------------------------
(* C30 *)

\* C30: whenever at least one fetch of query q is in flight (issued and not yet
\* resolved), q's status is 'loading'; in particular, when two load cycles of q
\* overlap, the completion of one of them does not make the status 'ok' or
\* 'error' while the other is still in flight.
C30_LoadingWhileInFlight ==
    \A r \in requests : r.pc = "fetch" => IsLoading(StatusOf(_data, r.name))

-----------------------------------------------------------------------------
(* C31 *)

\* the chain r was started by a load() with options.append
Appends(r) == OptionOr(r.options, "append", FALSE)

\* the response of the cycle with this id has been applied: its chain is past the
\* transform callback
Applied(id) ==
    /\ id \in 1..nextId
    /\ \A r \in requests : r.id = id => r.pc \in {"then3", "then4"}

\* the data of a query that every cycle appends to (it does not load at the
\* mount) holds the payload of every applied cycle, once
AppliedRows ==
    \A q \in DOMAIN _queries : ~Truthy(_queries[q].autoLoad) =>
        LET rows == Get(_data, q).v IN
        /\ \A id \in 1..nextId : Applied(id) => \E i \in 1..Len(rows) : rows[i].id = id
        /\ \A i, j \in 1..Len(rows) : rows[i].id = rows[j].id => i = j
        /\ \A i \in 1..Len(rows) : Applied(rows[i].id)

\* C31: no lost update under overlap: when two load cycles of an array-transform
\* query q, both with options.append true, are in flight at once and both
\* succeed, the final data of q is the data before them followed by both payloads
\* in the order the responses were applied; neither payload is dropped, because
\* each transform reads q's data at the moment its response is applied.
C31_NoLostUpdate ==
    [][/\ \A r2 \in requests : (Transforms(r2) /\ Appends(r2)) =>
             LET q == r2.name
                 data == Get(_data, q)
                 new == Get(_data', q)
             IN  /\ new = Array(data.v \o <<[id |-> r2.id]>>)
                 /\ \A r1 \in requests :
                       (/\ r1.name = q
                        /\ r1.pc = "then3"
                        /\ Appends(r1)
                        /\ cycle[q].dataBy = r1.id) =>
                           new = Array(r1.before.v \o <<[id |-> r1.id], [id |-> r2.id]>>)
       /\ AppliedRows']_vars

\* two cycles with options.append were in flight at once, the response of the
\* second was applied first, and the data holds both payloads in that order
C31_Witness ==
    /\ nextId = 2
    /\ \A r \in requests : r.pc = "then4"
    /\ Get(_data, <<"a">>) = Array(<<[id |-> 2], [id |-> 1]>>)

-----------------------------------------------------------------------------
(* C32 *)

\* once every fetch is answered and every chain has run, no status is 'loading'
NotLeftLoading ==
    requests = {} => \A q \in DOMAIN _queries : ~IsLoading(StatusOf(_data, q))

\* C32: when a query's transform throws while a successful response is applied,
\* the exception does not escape the load cycle: the query's data is left
\* unchanged, its status becomes 'error: ' followed by the exception's message,
\* and the re-render is still signalled exactly once, so the status never stays
\* 'loading' after the fetch has resolved.
C32_TransformThrowIsError ==
    [][/\ \A r \in requests :
             (Transforms(r) /\ r.options # EmptyObject) =>
                 /\ _data' = _data
                 /\ thrown' = thrown
                 /\ mounted' = mounted
                 /\ ~rendered' /\ props' = props
                 /\ \E r2 \in After(r) :
                       r2.pc = "then3" /\ r2.failed /\ r2.message = "Some error message"
       /\ \A r \in requests :
             (Continues(r) /\ r.pc = "then3" /\ r.failed) =>
                 /\ StatusOf(_data', r.name) = String("error: Some error message")
                 /\ Get(_data', r.name) = Get(_data, r.name)
                 /\ thrown' = thrown
                 /\ ~rendered' /\ props' = props
                 /\ \E r2 \in After(r) : r2.pc = "then4"
       /\ \A r \in requests :
             (Continues(r) /\ r.pc = "then4") =>
                 /\ After(r) = {}
                 /\ rendered' /\ props' = _data /\ _data' = _data
       /\ NotLeftLoading']_vars

\* the transform threw on the payload of a load made with options: the data is
\* still the payload of the earlier cycle and the snapshot shows the error
C32_Witness ==
    /\ requests = {}
    /\ nextId = 2
    /\ cycle[<<"s">>].dataBy = 1
    /\ cycle[<<"s">>].statusBy = 2
    /\ Get(props, <<"s">>) = Array(<<[id |-> 1]>>)
    /\ StatusOf(props, <<"s">>) = String("error: Some error message")
    /\ thrown = ""

====
